---- MODULE Spec2Model ----
(***************************************************************************)
(* Model of lib/compute/autoscaler.js: the Autoscaler resource handle, its *)
(* two overridden operations (delete, setMetadata) and the response        *)
(* handlers they install.  JavaScript values are tagged records, objects   *)
(* live on a heap and are passed by reference, and the transport completes *)
(* every request it was given exactly once, in any order.                  *)
(***************************************************************************)
EXTENDS Integers, Sequences, FiniteSets, TLC

VARIABLES
  hName,       \* this.name of every handle
  hZone,       \* this.zone of every handle (a reference to a zone)
  hMeta,       \* this.metadata of every handle
  heap,        \* metadata objects, by reference
  calls,       \* the delete / setMetadata calls made so far
  requests,    \* the requests handed to the transport
  bodies,      \* the response bodies the transport delivered, by request
  operations,  \* the Operation handles built by zone.operation
  threw        \* an exception was raised by the component's code

vars == <<hName, hZone, hMeta, heap, calls, requests, bodies, operations, threw>>

\* ---- bounds -------------------------------------------------------------
MaxCalls == 2

\* ---- JavaScript values --------------------------------------------------
Null == [t |-> "null"]
Undefined == [t |-> "undefined"]
Str(s) == [t |-> "string", s |-> s]
Obj(i) == [t |-> "object", id |-> i]
Resp(r) == [t |-> "response", r |-> r]
OpRef(r) == [t |-> "operation", op |-> r]
Err == [t |-> "error", e |-> "transport"]
Cb == [t |-> "function", f |-> "cb"]
noop == [t |-> "function", f |-> "noop"]
InitialMetadata == [t |-> "initial"]

Truthy(v) == v.t \notin {"null", "undefined"}
Or(a, b) == IF Truthy(a) THEN a ELSE b
EmptyObject == [k \in {} |-> Null]
Get(o, k) == IF k \in DOMAIN o THEN o[k] ELSE Undefined
Put(o, k, v) == [x \in DOMAIN o \cup {k} |-> IF x = k THEN v ELSE o[x]]

\* ---- the world the handles live in --------------------------------------
Handles == {"h1", "h2"}
Zones == {"z1", "z2"}
CtorName == [h1 |-> "as-1", h2 |-> "as-2"]
CtorZone == [h1 |-> "z1", h2 |-> "z2"]
ZoneName == [z1 |-> "us-central1-a", z2 |-> "europe-west1-b"]

\* The metadata object the caller holds (and may pass to any call, any number
\* of times): empty, with a field of its own, or already carrying a name
\* and / or a zone of its own.
CallerObjects ==
  { EmptyObject,
    [description |-> Str("New description")],
    [name |-> Str("stale-name")],
    [name |-> Str("stale-name"), zone |-> Str("stale-zone"),
     description |-> Str("New description")] }
CallerRef == Obj(0)

\* What the transport can report for one request: success with an operation
\* payload, success with a payload that lacks `name`, failure with an error
\* body, failure with no body at all.  A success always carries a body.
Outcomes ==
  { [err |-> Null, hasBody |-> TRUE, body |-> ("name" :> Str("operation-1"))],
    [err |-> Null, hasBody |-> TRUE, body |-> ("kind" :> Str("compute#operation"))],
    [err |-> Err, hasBody |-> TRUE, body |-> ("error" :> Str("backendError"))],
    [err |-> Err, hasBody |-> FALSE, body |-> EmptyObject] }

\* ---- collaborators -------------------------------------------------------
\* zone.operation(name): a fresh Operation handle bound to the zone.
ZoneOperation(z, name) == [zone |-> z, name |-> name, metadata |-> Undefined]

\* ServiceObject.prototype.delete: one DELETE on the resource path
\* baseUrl/id, whose completion is handed to the given callback.
ServiceObjectDelete(h, c) ==
  [call |-> c, via |-> "ServiceObject.request", method |-> "DELETE",
   uri |-> <<"/autoscalers", hName[h]>>, qs |-> EmptyObject, json |-> Undefined,
   pending |-> TRUE, err |-> Undefined, resp |-> Undefined]

\* ---- Autoscaler ----------------------------------------------------------
\* variant: the callback is used as given
OrNoop_Missing(cb) == cb

\* callback = callback || util.noop
OrNoop(cb) == Or(cb, noop)

\* the id of the object literal `{}` evaluated by call c
FreshId(c) == c

\* variant: the call works on a copy of the caller's object
MetadataOrEmpty_Copies(m, c) ==
  [id |-> FreshId(c),
   heap |-> heap @@ (FreshId(c) :> IF Truthy(m) THEN heap[m.id] ELSE EmptyObject)]

\* metadata = metadata || {}: the object the call works on, and the heap
\* once the literal (if any) is allocated
MetadataOrEmpty(m, c) ==
  IF Truthy(m) THEN [id |-> m.id, heap |-> heap]
  ELSE [id |-> FreshId(c), heap |-> heap @@ (FreshId(c) :> EmptyObject)]

\* variant: name and zone are filled in only where the caller left them out
InjectNameZone_KeepsCaller(o, h) ==
  LET n == IF "name" \in DOMAIN o THEN o["name"] ELSE Str(hName[h])
      z == IF "zone" \in DOMAIN o THEN o["zone"] ELSE Str(ZoneName[hZone[h]])
  IN  Put(Put(o, "name", n), "zone", z)

\* metadata.name = this.name; metadata.zone = this.zone.name
InjectNameZone(o, h) ==
  Put(Put(o, "name", Str(hName[h])), "zone", Str(ZoneName[hZone[h]]))

\* the options object given to zone.request by setMetadata
PatchRequest(h, c, id) ==
  [call |-> c, via |-> "zone.request", method |-> "PATCH",
   uri |-> <<"/autoscalers">>, qs |-> ("autoscaler" :> Str(hName[h])),
   json |-> Obj(id),
   pending |-> TRUE, err |-> Undefined, resp |-> Undefined]

\* variant: operation.metadata is not assigned
DeleteHandler_NoMetadata(zone, r, err, resp, body) ==
  IF Truthy(err)
  THEN [invocations |-> << <<err, Null, resp>> >>, ops |-> <<>>]
  ELSE [invocations |-> << <<Null, OpRef(r), resp>> >>,
        ops |-> << ZoneOperation(zone, Get(body, "name")) >>]

\* variant: the error branch builds the Operation before reporting the error
DeleteHandler_WrapsFirst(zone, r, err, resp, body) ==
  IF Truthy(err)
  THEN [invocations |-> << <<err, Null, resp>> >>,
        ops |-> << [ZoneOperation(zone, Get(body, "name")) EXCEPT !.metadata = resp] >>]
  ELSE [invocations |-> << <<Null, OpRef(r), resp>> >>,
        ops |-> << [ZoneOperation(zone, Get(body, "name")) EXCEPT !.metadata = resp] >>]

\* variant: a response without a name is reported as an error
DeleteHandler_Validates(zone, r, err, resp, body) ==
  IF Truthy(err) \/ "name" \notin DOMAIN body
  THEN [invocations |-> << <<Err, Null, resp>> >>, ops |-> <<>>]
  ELSE [invocations |-> << <<Null, OpRef(r), resp>> >>,
        ops |-> << [ZoneOperation(zone, Get(body, "name")) EXCEPT !.metadata = resp] >>]

\* the function(err, resp) given to ServiceObject.prototype.delete: the
\* callback invocations it makes and the Operation handles it builds
DeleteHandler(zone, r, err, resp, body) ==
  IF Truthy(err)
  THEN [invocations |-> << <<err, Null, resp>> >>, ops |-> <<>>]
  ELSE [invocations |-> << <<Null, OpRef(r), resp>> >>,
        ops |-> << [ZoneOperation(zone, Get(body, "name")) EXCEPT !.metadata = resp] >>]

\* variant: the operation slot is left undefined on failure
SetMetadataHandler_UndefinedOp(zone, r, err, resp, body) ==
  IF Truthy(err)
  THEN [invocations |-> << <<err, Undefined, resp>> >>, ops |-> <<>>]
  ELSE [invocations |-> << <<Null, OpRef(r), resp>> >>,
        ops |-> << [ZoneOperation(zone, Get(body, "name")) EXCEPT !.metadata = resp] >>]

\* variant: the error branch does not return
SetMetadataHandler_NoReturn(zone, r, err, resp, body) ==
  LET wrapped == [invocations |-> << <<Null, OpRef(r), resp>> >>,
                  ops |-> << [ZoneOperation(zone, Get(body, "name"))
                                EXCEPT !.metadata = resp] >>]
  IN  IF Truthy(err)
      THEN [invocations |-> << <<err, Null, resp>> >> \o wrapped.invocations,
            ops |-> wrapped.ops]
      ELSE wrapped

\* the function(err, resp) given to zone.request by setMetadata
SetMetadataHandler(zone, r, err, resp, body) ==
  IF Truthy(err)
  THEN [invocations |-> << <<err, Null, resp>> >>, ops |-> <<>>]
  ELSE [invocations |-> << <<Null, OpRef(r), resp>> >>,
        ops |-> << [ZoneOperation(zone, Get(body, "name")) EXCEPT !.metadata = resp] >>]

\* a successful delete on handle h has already completed
DeletedRemotely(h) ==
  \E r \in 1..Len(requests) :
    /\ ~requests[r].pending
    /\ requests[r].err = Null
    /\ calls[requests[r].call].method = "delete"
    /\ calls[requests[r].call].h = h

\* history kept with every call: the arguments it was given and whether the
\* remote resource had been deleted by then
NewCall(method, h, zone, arg, cb, callback) ==
  [method |-> method, h |-> h, zone |-> zone, arg |-> arg, cb |-> cb,
   callback |-> callback,
   log |-> <<>>, afterDelete |-> DeletedRemotely(h)]

\* calling a value: a function is entered, anything else is a TypeError
Invoke(c, invocations) ==
  IF calls[c].callback.t = "function"
  THEN /\ calls' = [calls EXCEPT ![c].log = @ \o invocations]
       /\ threw' = threw
  ELSE /\ calls' = calls
       /\ threw' = (threw \/ invocations # <<>>)

\* the transport completes request r with outcome o
Complete(r, o, resp) ==
  /\ requests' = [requests EXCEPT ![r].pending = FALSE, ![r].err = o.err,
                                  ![r].resp = resp]
  /\ bodies' = IF o.hasBody THEN bodies @@ (r :> o.body) ELSE bodies

Init ==
  /\ hName = CtorName
  /\ hZone = CtorZone
  /\ hMeta = [h \in Handles |-> InitialMetadata]
  /\ \E o \in CallerObjects : heap = (CallerRef.id :> o)
  /\ calls = <<>>
  /\ requests = <<>>
  /\ bodies = <<>>
  /\ operations = <<>>
  /\ threw = FALSE

\* Autoscaler.prototype.delete
delete(h, cb) ==
  /\ Len(calls) < MaxCalls
  /\ LET c == Len(calls) + 1
         callback == OrNoop(cb)
         zone == hZone[h]
     IN  /\ calls' = Append(calls, NewCall("delete", h, zone, Undefined, cb, callback))
         /\ requests' = Append(requests, ServiceObjectDelete(h, c))
  /\ UNCHANGED <<hName, hZone, hMeta, heap, bodies, operations, threw>>

\* variant: the assignment of the name runs the other way round
setMetadata_Reversed(h, m, cb) ==
  /\ Len(calls) < MaxCalls
  /\ LET c == Len(calls) + 1
         zone == hZone[h]
         callback == OrNoop(cb)
         metadata == MetadataOrEmpty(m, c)
         given == Get(metadata.heap[metadata.id], "name")
     IN  /\ hName' = [hName EXCEPT ![h] = IF given.t = "string" THEN given.s
                                          ELSE "undefined"]
         /\ heap' = [metadata.heap EXCEPT ![metadata.id] =
                       Put(@, "zone", Str(ZoneName[hZone[h]]))]
         /\ calls' = Append(calls, NewCall("setMetadata", h, zone, m, cb, callback))
         /\ requests' = Append(requests, PatchRequest(h, c, metadata.id))
  /\ UNCHANGED <<hZone, hMeta, bodies, operations, threw>>

\* Autoscaler.prototype.setMetadata
setMetadata(h, m, cb) ==
  /\ Len(calls) < MaxCalls
  /\ LET c == Len(calls) + 1
         zone == hZone[h]
         callback == OrNoop(cb)
         metadata == MetadataOrEmpty(m, c)
     IN  /\ heap' = [metadata.heap EXCEPT ![metadata.id] = InjectNameZone(@, h)]
         /\ calls' = Append(calls, NewCall("setMetadata", h, zone, m, cb, callback))
         /\ requests' = Append(requests, PatchRequest(h, c, metadata.id))
  /\ UNCHANGED <<hName, hZone, hMeta, bodies, operations, threw>>

\* the completion of delete's request
deleteResponse(r, o) ==
  /\ requests[r].pending
  /\ calls[requests[r].call].method = "delete"
  /\ LET c == requests[r].call
         resp == IF o.hasBody THEN Resp(r) ELSE Undefined
         res == DeleteHandler(calls[c].zone, r, o.err, resp, o.body)
     IN  /\ Complete(r, o, resp)
         /\ operations' = operations @@ (r :> res.ops)
         /\ Invoke(c, res.invocations)
  /\ UNCHANGED <<hName, hZone, hMeta, heap>>

\* variant: a successful response is stored as the handle's metadata
setMetadataResponse_Stores(r, o) ==
  /\ requests[r].pending
  /\ calls[requests[r].call].method = "setMetadata"
  /\ LET c == requests[r].call
         resp == IF o.hasBody THEN Resp(r) ELSE Undefined
         res == SetMetadataHandler(calls[c].zone, r, o.err, resp, o.body)
     IN  /\ Complete(r, o, resp)
         /\ operations' = operations @@ (r :> res.ops)
         /\ Invoke(c, res.invocations)
         /\ hMeta' = IF Truthy(o.err) THEN hMeta
                     ELSE [hMeta EXCEPT ![calls[c].h] = resp]
  /\ UNCHANGED <<hName, hZone, heap>>

\* the completion of setMetadata's request
setMetadataResponse(r, o) ==
  /\ requests[r].pending
  /\ calls[requests[r].call].method = "setMetadata"
  /\ LET c == requests[r].call
         resp == IF o.hasBody THEN Resp(r) ELSE Undefined
         res == SetMetadataHandler(calls[c].zone, r, o.err, resp, o.body)
     IN  /\ Complete(r, o, resp)
         /\ operations' = operations @@ (r :> res.ops)
         /\ Invoke(c, res.invocations)
  /\ UNCHANGED <<hName, hZone, hMeta, heap>>

MetadataArgs == {Undefined, CallerRef}
CallbackArgs == {Cb, Undefined}

Next ==
  \/ \E h \in Handles, cb \in CallbackArgs : delete(h, cb)
  \/ \E h \in Handles, m \in MetadataArgs, cb \in CallbackArgs : setMetadata(h, m, cb)
  \/ \E r \in 1..Len(requests), o \in Outcomes : deleteResponse(r, o)
  \/ \E r \in 1..Len(requests), o \in Outcomes : setMetadataResponse(r, o)

Spec == Init /\ [][Next]_vars

\* ---- vocabulary of the properties ---------------------------------------
ReqIds == 1..Len(requests)
CallIds == 1..Len(calls)
CallOf(r) == calls[requests[r].call]
Done(r) == ~requests[r].pending
Succeeded(r) == Done(r) /\ ~Truthy(requests[r].err)
Failed(r) == Done(r) /\ Truthy(requests[r].err)
RequestsOf(c) == {r \in ReqIds : requests[r].call = c}
Delivered(c, args) == \E i \in 1..Len(calls[c].log) : calls[c].log[i] = args
\* the Operation zone.operation(resp.name) of zone z, with metadata = resp
WrappedOperation(z, r) ==
  [zone |-> z, name |-> Get(bodies[r], "name"), metadata |-> requests[r].resp]

\* C1: a delete whose generic delete succeeded with response resp calls
\* back with (null, operation, resp), where operation is the one handle built
\* by zone.operation(resp.name) on the autoscaler's own zone and its metadata
\* is that very response.
C1_DeleteSuccess ==
  \A r \in ReqIds :
    (Succeeded(r) /\ CallOf(r).method = "delete") =>
      /\ requests[r].resp = Resp(r)
      /\ r \in DOMAIN operations
      /\ operations[r] = << WrappedOperation(hZone[CallOf(r).h], r) >>
      /\ Delivered(requests[r].call, <<Null, OpRef(r), requests[r].resp>>)

C1_Witness ==
  \E r \in ReqIds :
    /\ Succeeded(r) /\ CallOf(r).method = "delete" /\ CallOf(r).callback = Cb
    /\ Get(bodies[r], "name") = Str("operation-1")
    /\ CallOf(r).h = "h2"

\* C2: a delete whose generic delete failed with (err, resp) calls back with
\* (err, null, resp): error and response unchanged, the second argument the
\* null value itself, and zone.operation not invoked for that call.
C2_DeleteFailure ==
  \A r \in ReqIds :
    (Failed(r) /\ CallOf(r).method = "delete") =>
      /\ r \in DOMAIN operations
      /\ operations[r] = <<>>
      /\ CallOf(r).log = << <<requests[r].err, Null, requests[r].resp>> >>

C2_Witness ==
  /\ \E r \in ReqIds :
       /\ Failed(r) /\ CallOf(r).method = "delete" /\ CallOf(r).callback = Cb
       /\ requests[r].resp = Resp(r)
  /\ \E r \in ReqIds :
       /\ Failed(r) /\ CallOf(r).method = "delete"
       /\ requests[r].resp = Undefined

\* C3: whatever the metadata argument (omitted, empty, or carrying name and
\* zone keys of its own), a setMetadata call issues exactly one zone.request:
\* PATCH /autoscalers, query autoscaler = the handle's name, and a JSON body
\* whose name is the handle's name, whose zone is the parent zone's name and
\* whose other fields are the caller's, unchanged.
C3_SetMetadataRequest ==
  [][ (Len(calls') = Len(calls) + 1 /\ calls'[Len(calls')].method = "setMetadata") =>
        LET c == Len(calls')
            h == calls'[c].h
            new == {r \in 1..Len(requests') : r > Len(requests)}
        IN  /\ Cardinality(new) = 1
            /\ \A r \in 1..Len(requests) : requests'[r] = requests[r]
            /\ \A r \in new :
                 LET req == requests'[r]
                     given == IF Truthy(calls'[c].arg) THEN heap[calls'[c].arg.id]
                              ELSE EmptyObject
                 IN  /\ req.call = c
                     /\ req.via = "zone.request"
                     /\ req.method = "PATCH"
                     /\ req.uri = <<"/autoscalers">>
                     /\ DOMAIN req.qs = {"autoscaler"}
                     /\ req.qs["autoscaler"] = Str(hName[h])
                     /\ req.json.t = "object"
                     /\ req.json.id \in DOMAIN heap'
                     /\ LET body == heap'[req.json.id]
                        IN  /\ DOMAIN body = DOMAIN given \cup {"name", "zone"}
                            /\ body["name"] = Str(hName[h])
                            /\ body["zone"] = Str(ZoneName[hZone[h]])
                            /\ \A k \in DOMAIN given \ {"name", "zone"} :
                                 body[k] = given[k]
    ]_vars

\* a PATCH for an omitted argument, and a PATCH of h2 whose body is the
\* caller's object, which carried a description and the name and zone that
\* an earlier call on h1 had left in it
C3_Witness ==
  /\ \E r \in ReqIds :
       /\ requests[r].method = "PATCH" /\ CallOf(r).arg = Undefined
       /\ DOMAIN heap[requests[r].json.id] = {"name", "zone"}
  /\ \E r \in ReqIds :
       /\ requests[r].method = "PATCH" /\ CallOf(r).arg = CallerRef
       /\ CallOf(r).h = "h2"
       /\ heap[CallerRef.id] = [name |-> Str("as-2"), zone |-> Str("europe-west1-b"),
                                description |-> Str("New description")]

\* C4: setMetadata maps a transport outcome to callback arguments as delete
\* does: (null, zone.operation(resp.name) with metadata = resp, resp) on
\* success, (err, null, resp) on failure, no Operation built on failure.
C4_SetMetadataAsDelete ==
  \A r \in ReqIds :
    (Done(r) /\ CallOf(r).method = "setMetadata") =>
      LET body == IF r \in DOMAIN bodies THEN bodies[r] ELSE EmptyObject
          asDelete == DeleteHandler(hZone[CallOf(r).h], r, requests[r].err,
                                    requests[r].resp, body)
      IN  /\ r \in DOMAIN operations
          /\ CallOf(r).log = asDelete.invocations
          /\ operations[r] = asDelete.ops
          /\ IF Succeeded(r)
             THEN /\ CallOf(r).log = << <<Null, OpRef(r), requests[r].resp>> >>
                  /\ operations[r] = << WrappedOperation(hZone[CallOf(r).h], r) >>
             ELSE /\ CallOf(r).log = << <<requests[r].err, Null, requests[r].resp>> >>
                  /\ operations[r] = <<>>

C4_Witness ==
  \E r1, r2 \in ReqIds :
    /\ CallOf(r1).method = "delete" /\ CallOf(r2).method = "setMetadata"
    /\ Failed(r1) /\ Failed(r2)
    /\ requests[r1].err = requests[r2].err
    /\ r1 \in DOMAIN bodies /\ r2 \in DOMAIN bodies /\ bodies[r1] = bodies[r2]
    /\ CallOf(r1).callback = Cb /\ CallOf(r2).callback = Cb

\* C5: a delete or setMetadata called without a callback never throws,
\* whether the transport succeeds or fails: the no-op stands in for the
\* callback, the request is issued, and the response is handled to the end.
C5_NoCallbackNoThrow ==
  /\ ~threw
  /\ \A c \in CallIds :
       ~Truthy(calls[c].cb) =>
         /\ calls[c].callback = noop
         /\ Cardinality(RequestsOf(c)) = 1
         /\ \A r \in RequestsOf(c) :
              Done(r) => /\ r \in DOMAIN operations
                         /\ Len(operations[r]) = (IF Succeeded(r) THEN 1 ELSE 0)
                         /\ Len(calls[c].log) = 1

C5_Witness ==
  \E r1, r2 \in ReqIds :
    /\ CallOf(r1).method = "delete" /\ CallOf(r2).method = "setMetadata"
    /\ CallOf(r1).cb = Undefined /\ CallOf(r2).cb = Undefined
    /\ Failed(r1) /\ Succeeded(r2)

\* C6: every delete or setMetadata call issues one request, and its callback
\* fires once, when that request completes and not before, with the error and
\* response of its own request, also when several calls on one handle are
\* outstanding and complete in any order.
C6_OneRequestOneCallback ==
  /\ \A c \in CallIds : Cardinality(RequestsOf(c)) = 1
  /\ \A r \in ReqIds :
       /\ requests[r].pending => CallOf(r).log = <<>>
       /\ Done(r) => /\ Len(CallOf(r).log) = 1
                     /\ CallOf(r).log[1][1] = requests[r].err
                     /\ CallOf(r).log[1][3] = requests[r].resp
                     /\ requests[r].resp \in {Resp(r), Undefined}

\* two calls on one handle outstanding together; the later one has been
\* answered while the earlier one still waits
C6_Witness ==
  \E r1, r2 \in ReqIds :
    /\ r1 < r2 /\ CallOf(r1).h = CallOf(r2).h
    /\ CallOf(r1).callback = Cb /\ CallOf(r2).callback = Cb
    /\ requests[r1].pending /\ Done(r2)
    /\ CallOf(r1).method # CallOf(r2).method

\* request r1 is being answered with success in this step, after the later
\* request r2 of a call on the same handle h was: the two calls overlapped,
\* and both have now succeeded
SecondOfTwoAnswered(h, r1, r2) ==
  /\ r1 < r2
  /\ CallOf(r1).h = h /\ CallOf(r2).h = h
  /\ Succeeded(r2)
  /\ requests[r1].pending
  /\ ~requests'[r1].pending /\ ~Truthy(requests'[r1].err)

\* C7 (as stated): once two concurrent mutating calls on one handle have
\* both been answered, the handle's stored metadata is one of the two
\* responses.
C7_Original ==
  [][ \A h \in Handles : \A r1, r2 \in ReqIds :
        SecondOfTwoAnswered(h, r1, r2) =>
          hMeta'[h] \in {requests'[r1].resp, requests'[r2].resp} ]_vars

\* C7 (amended): delete and setMetadata never store a response on the
\* handle: its metadata stays what it was, whatever the interleaving, and
\* each response ends up only as the metadata of the Operation of its own
\* request.
C7_Amended ==
  /\ \A h \in Handles : hMeta[h] = InitialMetadata
  /\ \A r \in ReqIds :
       Succeeded(r) => /\ r \in DOMAIN operations
                       /\ Len(operations[r]) = 1
                       /\ operations[r][1].metadata = Resp(r)

\* two setMetadata calls on one handle outstanding together, the later one
\* answered with success first
C7_Witness ==
  \E r1, r2 \in ReqIds :
    /\ r1 < r2 /\ CallOf(r1).h = CallOf(r2).h
    /\ CallOf(r1).method = "setMetadata" /\ CallOf(r2).method = "setMetadata"
    /\ requests[r1].pending /\ Succeeded(r2)

\* C8: whatever calls were made and however they were answered, a handle's
\* name and zone are those given at construction; calls made after the remote
\* resource was deleted address it by that name and zone.
C8_HandleImmutable ==
  /\ hName = CtorName
  /\ hZone = CtorZone
  /\ \A r \in ReqIds :
       CallOf(r).afterDelete =>
         /\ CallOf(r).zone = CtorZone[CallOf(r).h]
         /\ requests[r].method = "DELETE" =>
              requests[r].uri = <<"/autoscalers", CtorName[CallOf(r).h]>>
         /\ requests[r].method = "PATCH" =>
              requests[r].qs["autoscaler"] = Str(CtorName[CallOf(r).h])

C8_Witness ==
  \E r \in ReqIds :
    /\ CallOf(r).afterDelete /\ CallOf(r).method = "setMetadata"
    /\ CallOf(r).arg = CallerRef
    /\ Succeeded(r)

\* C9: a success whose response lacks `name` raises and delivers no error:
\* the callback gets (null, operation, resp), the operation built from an
\* undefined identifier, its metadata the response.
C9_MissingName ==
  /\ ~threw
  /\ \A r \in ReqIds :
       (Succeeded(r) /\ "name" \notin DOMAIN bodies[r]) =>
         /\ CallOf(r).log = << <<Null, OpRef(r), Resp(r)>> >>
         /\ r \in DOMAIN operations
         /\ operations[r] = << [zone |-> CallOf(r).zone, name |-> Undefined,
                                metadata |-> Resp(r)] >>

C9_Witness ==
  \E r1, r2 \in ReqIds :
    /\ CallOf(r1).method = "delete" /\ CallOf(r2).method = "setMetadata"
    /\ Succeeded(r1) /\ Succeeded(r2)
    /\ "name" \notin DOMAIN bodies[r1] /\ "name" \notin DOMAIN bodies[r2]

\* the setMetadata calls that were given the caller's object
PassedCallerObject ==
  {c \in CallIds : calls[c].method = "setMetadata" /\ calls[c].arg = CallerRef}
LastOf(S) == CHOOSE c \in S : \A d \in S : d <= c

\* C10: setMetadata works on the caller's object itself: the request's body
\* is that object, name and zone are written into it, so every request that
\* was given it shares one body, which carries the name and zone of the
\* handle it was last passed to, while each request's autoscaler query
\* parameter is its own handle's name; the handle's name, zone and metadata
\* are not touched.
C10_NoCopy ==
  /\ hName = CtorName /\ hZone = CtorZone
  /\ hMeta = [h \in Handles |-> InitialMetadata]
  /\ \A r \in ReqIds :
       requests[r].call \in PassedCallerObject =>
         /\ requests[r].json = CallerRef
         /\ requests[r].qs["autoscaler"] = Str(CtorName[CallOf(r).h])
  /\ PassedCallerObject # {} =>
       LET h == calls[LastOf(PassedCallerObject)].h
       IN  /\ Get(heap[CallerRef.id], "name") = Str(CtorName[h])
           /\ Get(heap[CallerRef.id], "zone") = Str(ZoneName[CtorZone[h]])

C10_Witness ==
  \E r1, r2 \in ReqIds :
    /\ r1 < r2
    /\ requests[r1].call \in PassedCallerObject
    /\ requests[r2].call \in PassedCallerObject
    /\ CallOf(r1).h = "h1" /\ CallOf(r2).h = "h2"
    /\ requests[r1].json = requests[r2].json
    /\ heap[requests[r1].json.id]["name"] = Str("as-2")
    /\ requests[r1].qs["autoscaler"] = Str("as-1")

====
